---- MODULE Spec2Model ----
(***************************************************************************)
(* A model of src/src/App.tsx: the PokeAPI catalog viewer.                  *)
(*                                                                         *)
(* Strings the code takes apart (names, queries, String(id)) are sequences *)
(* of one-character strings.  A value of type T | null is a sequence of    *)
(* length at most one: <<>> is null and <<v>> is the value v.              *)
(***************************************************************************)
EXTENDS Integers, Sequences, FiniteSets, TLC

(* ------------------------------ bounds -------------------------------- *)

\* the remote catalog serves at most this many of the records of Pokemon
MaxItems == 3
\* the search box holds at most this many characters
MaxQueryLen == 2
\* at most this many fetchOne requests are in flight at once
MaxAttempts == 2
\* how many of ALL_TYPES have a checkbox that is toggled
NumTypes == 2

(* ----------------------------- the data ------------------------------- *)

\* fetchAll(151): the limit of the index request
Limit == 151

ALL_TYPES ==
    << "normal", "fire", "water", "electric", "grass", "ice", "fighting",
       "poison", "ground", "flying", "psychic", "bug", "rock", "ghost",
       "dragon", "dark", "steel", "fairy" >>

\* the checkboxes the model toggles: fire, water, ...
ToggleTypes == { ALL_TYPES[i + 1] : i \in 1..NumTypes }

\* base_experience of a record whose field is null in the remote payload
NullXp == 0 - 1

\* The remote records ("item detail" payloads, already in the Pokemon shape
\* of fetchAll/fetchOne's mapping).  Two of them tie on base_experience once
\* a missing value counts as zero, and one identifier has two digits.
Pokemon ==
    { [id |-> 1,  name |-> <<"a", "a">>, base_experience |-> 64,
       types |-> <<"fire", "water">>],
      [id |-> 2,  name |-> <<"b">>,      base_experience |-> 0,
       types |-> <<"fire">>],
      [id |-> 12, name |-> <<"a">>,      base_experience |-> NullXp,
       types |-> <<"water", "grass">>] }

\* the characters a query is typed from
QueryChars == {"a", "A", " ", "1", "2"}

\* the :name segments the detail route is opened with; a name is that of no
\* item when the remote catalog lacks the record
RouteNames == { p.name : p \in Pokemon }

\* e.message of a failed request; "" stands for an error without a message
Messages == {"Network Error", ""}

Range(s) == { s[i] : i \in 1..Len(s) }

\* the remote catalogs: the records the API serves
Catalogs == { S \in SUBSET Pokemon : Cardinality(S) <= MaxItems }

\* the orders in which the index request may list the records of S
Listings(S) ==
    { c \in [1..Cardinality(S) -> S] :
        \A i, j \in 1..Cardinality(S) : i # j => c[i] # c[j] }

\* e.target.value after one keystroke in the search box: a character typed
\* at the end, or the last character deleted
Edits(qry) ==
    { Append(qry, c) : c \in IF Len(qry) < MaxQueryLen THEN QueryChars ELSE {} }
    \cup { SubSeq(qry, 1, Len(qry) - 1) : k \in IF qry # <<>> THEN {1} ELSE {} }

(* --------------------------- string helpers --------------------------- *)

\* String.prototype.toLowerCase, one character
LowerChar(c) ==
    CASE c = "A" -> "a"
      [] c = "B" -> "b"
      [] OTHER   -> c

ToLowerCase(s) == [ i \in 1..Len(s) |-> LowerChar(s[i]) ]

RECURSIVE TrimStart(_)
TrimStart(s) ==
    IF s # <<>> /\ Head(s) = " " THEN TrimStart(Tail(s)) ELSE s

RECURSIVE TrimEnd(_)
TrimEnd(s) ==
    IF s # <<>> /\ s[Len(s)] = " " THEN TrimEnd(SubSeq(s, 1, Len(s) - 1)) ELSE s

\* String.prototype.trim
Trim(s) == TrimEnd(TrimStart(s))

Digit(d) == <<"0", "1", "2", "3", "4", "5", "6", "7", "8", "9">>[d + 1]

\* String(n) of a non-negative integer
RECURSIVE String(_)
String(n) ==
    IF n < 10 THEN << Digit(n) >>
    ELSE String(n \div 10) \o << Digit(n % 10) >>

\* String.prototype.includes
Includes(s, q) ==
    \E i \in 0..(Len(s) - Len(q)) : SubSeq(s, i + 1, i + Len(q)) = q

\* Array.prototype.includes
ArrayIncludes(s, x) == \E i \in 1..Len(s) : s[i] = x

CharRank(c) ==
    CASE c = "a" -> 1
      [] c = "b" -> 2
      [] OTHER   -> 3

\* String.prototype.localeCompare on lower-case names: -1, 0 or 1
RECURSIVE LocaleCompare(_, _)
LocaleCompare(a, b) ==
    IF a = <<>> /\ b = <<>> THEN 0
    ELSE IF a = <<>> THEN 0 - 1
    ELSE IF b = <<>> THEN 1
    ELSE IF CharRank(Head(a)) < CharRank(Head(b)) THEN 0 - 1
    ELSE IF CharRank(Head(a)) > CharRank(Head(b)) THEN 1
    ELSE LocaleCompare(Tail(a), Tail(b))

(* ------------------------- sorting and views -------------------------- *)

\* x || 0 on a base_experience
OrZero(x) == IF x = NullXp THEN 0 ELSE x

\* sorters[sortBy](a, b)
Sorters(sortBy, a, b) ==
    CASE sortBy = "name" -> LocaleCompare(a.name, b.name)
      [] sortBy = "id"   -> a.id - b.id
      [] sortBy = "base_experience" ->
            OrZero(a.base_experience) - OrZero(b.base_experience)

\* Array.prototype.sort is stable: an element goes behind those that
\* compare less than or equal to it
SortInsert(t, x, sortBy) ==
    LET n == Cardinality({ i \in 1..Len(t) : Sorters(sortBy, t[i], x) <= 0 })
    IN  SubSeq(t, 1, n) \o << x >> \o SubSeq(t, n + 1, Len(t))

RECURSIVE Sort(_, _)
Sort(s, sortBy) ==
    IF s = <<>> THEN <<>>
    ELSE SortInsert(Sort(SubSeq(s, 1, Len(s) - 1), sortBy), s[Len(s)], sortBy)

\* Array.prototype.reverse
Reverse(s) == [ i \in 1..Len(s) |-> s[Len(s) + 1 - i] ]

\* filtered.map((p) => p.name)
Names(s) == [ i \in 1..Len(s) |-> s[i].name ]

\* the filter step of ListView's useMemo, q already trimmed and lower-cased
ListBaseIdSubstring(ds, q) ==
    IF q # <<>>
    THEN SelectSeq(ds, LAMBDA p : Includes(p.name, q) \/ Includes(String(p.id), q))
    ELSE ds

ListBase(ds, q) ==
    IF q # <<>>
    THEN SelectSeq(ds, LAMBDA p : Includes(p.name, q) \/ String(p.id) = q)
    ELSE ds

\* a descending order got from a stable sort with the comparison negated,
\* which leaves ties in their filtered order
ListFilteredResort(ds, qry, sortBy, d) ==
    LET base   == ListBase(ds, ToLowerCase(Trim(qry)))
        sorted == Sort(base, sortBy)
    IN  IF d = "desc" THEN Reverse(Sort(Reverse(base), sortBy)) ELSE sorted

\* ListView's useMemo
ListFiltered(ds, qry, sortBy, d) ==
    LET base   == ListBase(ds, ToLowerCase(Trim(qry)))
        sorted == Sort(base, sortBy)
    IN  IF d = "desc" THEN Reverse(sorted) ELSE sorted

\* a gallery filter with OR semantics
GalleryFilteredSome(ds, act) ==
    IF Len(act) = 0 THEN ds
    ELSE SelectSeq(ds, LAMBDA p : \E i \in 1..Len(act) : ArrayIncludes(p.types, act[i]))

\* GalleryView's useMemo
GalleryFiltered(ds, act) ==
    IF Len(act) = 0 THEN ds
    ELSE SelectSeq(ds, LAMBDA p : \A i \in 1..Len(act) : ArrayIncludes(p.types, act[i]))

\* the element toggled by a checkbox
ToggleIn(act, t) ==
    IF ArrayIncludes(act, t) THEN SelectSeq(act, LAMBDA x : x # t)
    ELSE Append(act, t)

\* fetchAll's result: one record per index entry, sorted by id
FetchAllUnsorted(results) == results

FetchAllResult(results) == Sort(results, "id")

\* data.results of /pokemon?limit=${limit}: the first `limit` entries
IndexResults(listing) ==
    SubSeq(listing, 1, IF Len(listing) < Limit THEN Len(listing) ELSE Limit)

\* the record GET /pokemon/{key} answers with, or null
RemoteLookup(rem, key) ==
    IF \E p \in rem : p.name = key
    THEN << CHOOSE p \in rem : p.name = key >>
    ELSE <<>>

(* ----------------------- the navigation resolver ---------------------- *)

\* order.findIndex((n) => n === name): 0-based, -1 when absent
FindIndex(order, name) ==
    IF \E i \in 1..Len(order) : order[i] = name
    THEN (CHOOSE i \in 1..Len(order) :
            order[i] = name /\ \A j \in 1..(i - 1) : order[j] # name) - 1
    ELSE 0 - 1

EffectiveOrderNoFallback(order, ds) == order

\* const order = currentOrder.length ? currentOrder : all.map((p) => p.name)
EffectiveOrder(order, ds) == IF Len(order) # 0 THEN order ELSE Names(ds)

PrevNameOffByOne(order, name) ==
    LET index == FindIndex(order, name)
    IN  IF index > 1 THEN << order[index] >> ELSE <<>>

\* index > 0 ? order[index - 1] : null
PrevName(order, name) ==
    LET index == FindIndex(order, name)
    IN  IF index > 0 THEN << order[index] >> ELSE <<>>

\* index >= 0 && index < order.length - 1 ? order[index + 1] : null
NextName(order, name) ==
    LET index == FindIndex(order, name)
    IN  IF index >= 0 /\ index < Len(order) - 1 THEN << order[index + 2] >> ELSE <<>>

(* ------------------------------ the state ----------------------------- *)

VARIABLES
    remote,         \* the remote catalog: the set of records the API serves
    appMounted,     \* App is mounted
    all,            \* App: useState<Pokemon[]>([])
    loading,        \* App: useState(true)
    error,          \* App: useState<string | null>(null)
    currentOrder,   \* App: useState<string[]>([])
    published,      \* some view has called setCurrentOrder since App mounted
    bulkPc,         \* where App's fetchAll is: "index", "details", and then
                    \* "resolved" or "rejected"
    bulkResults,    \* fetchAll: `results`, the entries the index request listed
    bulkPending,    \* the index entries whose detail request is outstanding
    bulkMounted,    \* `mounted` of App's effect
    route,          \* the location: [kind, name]
    query,          \* ListView: useState("")
    sortBy,         \* ListView: useState("name")
    dir,            \* ListView: useState("asc")
    active,         \* GalleryView: useState<string[]>([])
    data,           \* DetailView: useState<Pokemon | null>(null)
    detailLoading,  \* DetailView: useState(true)
    detailError,    \* DetailView: useState<string | null>(null)
    attempts        \* the fetchOne requests in flight, each with the name asked
                    \* for and the `mounted` flag of its effect; two requests
                    \* alike in both are one element
VARIABLE
    discarded       \* the requests ("fetchAll", "fetchOne") of which some
                    \* response found mounted = false and was dropped

appVars    == << all, loading, error >>
bulkVars   == << bulkPc, bulkResults, bulkPending, bulkMounted >>
listVars   == << query, sortBy, dir >>
detailVars == << data, detailLoading, detailError >>
orderVars  == << currentOrder, published >>
vars ==
    << remote, appMounted, all, loading, error, currentOrder, published,
       bulkPc, bulkResults, bulkPending, bulkMounted, route, query, sortBy, dir, active,
       data, detailLoading, detailError, attempts, discarded >>

NoName == <<>>

Routes ==
    { [kind |-> "list", name |-> NoName], [kind |-> "gallery", name |-> NoName] }
    \cup { [kind |-> "detail", name |-> n] : n \in RouteNames }

\* {!loading && !error && ( <Routes> ... )}
RoutesRendered == appMounted /\ ~loading /\ error = <<>>

\* the view that is mounted
View == IF RoutesRendered THEN route.kind ELSE "none"

\* return () => { mounted = false; } of every DetailView effect still live
Stale(atts) == { [ a EXCEPT !.mounted = FALSE ] : a \in atts }

Init ==
    /\ remote \in Catalogs
    /\ route \in Routes
    /\ appMounted = TRUE
    /\ all = <<>>
    /\ loading = TRUE
    /\ error = <<>>
    /\ currentOrder = <<>>
    /\ published = FALSE
    /\ bulkPc = "index"
    /\ bulkResults = <<>>
    /\ bulkPending = {}
    /\ bulkMounted = TRUE
    /\ query = <<>>
    /\ sortBy = "name"
    /\ dir = "asc"
    /\ active = <<>>
    /\ data = <<>>
    /\ detailLoading = TRUE
    /\ detailError = <<>>
    /\ attempts = {}
    /\ discarded = {}

(* ------------------------- mounting the views ------------------------- *)

\* the useState initial values of the three views
FreshViewState ==
    /\ query' = <<>>
    /\ sortBy' = "name"
    /\ dir' = "asc"
    /\ active' = <<>>
    /\ data' = <<>>
    /\ detailLoading' = TRUE
    /\ detailError' = <<>>

\* ListView's effect: setCurrentOrder(filtered.map((p) => p.name))
PublishList(ds, qry, key, d) ==
    /\ currentOrder' = Names(ListFiltered(ds, qry, key, d))
    /\ published' = TRUE

\* GalleryView's effect: setCurrentOrder(filtered.map((p) => p.name))
PublishGallery(ds, act) ==
    /\ currentOrder' = Names(GalleryFiltered(ds, act))
    /\ published' = TRUE

\* DetailView's effect: a new attempt with mounted = true
StartFetchOne(atts, name) == atts \cup { [name |-> name, mounted |-> TRUE] }

\* the element of route r is mounted over dataset ds: its state is fresh and
\* its effects run
MountView(r, ds, atts) ==
    /\ FreshViewState
    /\ CASE r.kind = "list" ->
              /\ PublishList(ds, <<>>, "name", "asc")
              /\ attempts' = atts
         [] r.kind = "gallery" ->
              /\ PublishGallery(ds, <<>>)
              /\ attempts' = atts
         [] r.kind = "detail" ->
              /\ Cardinality(atts) < MaxAttempts
              /\ attempts' = StartFetchOne(atts, r.name)
              /\ UNCHANGED orderVars

(* ---------------------------- the bulk load --------------------------- *)

\* catch (e) { if (mounted) setError(...) } finally { if (mounted) setLoading(false) }
BulkCatch(msg) ==
    /\ bulkPc' = "rejected"
    /\ bulkResults' = <<>>
    /\ bulkPending' = {}
    /\ IF bulkMounted
       THEN /\ error' = << IF msg # "" THEN msg ELSE "Failed to load Pokemon" >>
            /\ loading' = FALSE
            /\ UNCHANGED discarded
       ELSE /\ discarded' = discarded \cup {"fetchAll"}
            /\ UNCHANGED << error, loading >>
    /\ UNCHANGED << remote, appMounted, all, orderVars, bulkMounted, route,
                    listVars, active, detailVars, attempts >>

\* Promise.all resolved: if (mounted) setAll(data); finally setLoading(false);
\* the element of the current route mounts
BulkResolve(results) ==
    /\ bulkPc' = "resolved"
    /\ bulkResults' = <<>>
    /\ bulkPending' = {}
    /\ IF bulkMounted
       THEN /\ all' = FetchAllResult(results)
            /\ loading' = FALSE
            /\ MountView(route, all', attempts)
            /\ UNCHANGED discarded
       ELSE /\ discarded' = discarded \cup {"fetchAll"}
            /\ UNCHANGED << all, loading, orderVars, listVars, active,
                            detailVars, attempts >>
    /\ UNCHANGED << remote, appMounted, error, bulkMounted, route >>

\* api.get(`/pokemon?limit=${limit}`) answers
IndexFetchOk(listing) ==
    /\ bulkPc = "index"
    /\ IF IndexResults(listing) = <<>>
       THEN BulkResolve(<<>>)
       ELSE /\ bulkPc' = "details"
            /\ bulkResults' = IndexResults(listing)
            /\ bulkPending' = 1..Len(IndexResults(listing))
            /\ UNCHANGED << remote, appMounted, appVars, orderVars, bulkMounted,
                            route, listVars, active, detailVars, attempts,
                            discarded >>

\* api.get(`/pokemon?limit=${limit}`) fails
IndexFetchFail(msg) ==
    /\ bulkPc = "index"
    /\ BulkCatch(msg)

\* axios.get(r.url) of index entry i answers; the last answer settles the join
DetailFetchOk(i) ==
    /\ bulkPc = "details"
    /\ i \in bulkPending
    /\ IF bulkPending = {i}
       THEN BulkResolve(bulkResults)
       ELSE /\ bulkPending' = bulkPending \ {i}
            /\ UNCHANGED << remote, appMounted, appVars, orderVars, bulkPc,
                            bulkResults, bulkMounted, route, listVars, active,
                            detailVars, attempts, discarded >>

\* axios.get(r.url) of index entry i fails, or its payload lacks a field
DetailFetchFail(i, msg) ==
    /\ bulkPc = "details"
    /\ i \in bulkPending
    /\ BulkCatch(msg)

\* App unmounts: the effect's cleanup runs, and so does every view's
AppUnmount ==
    /\ appMounted
    /\ appMounted' = FALSE
    /\ bulkMounted' = FALSE
    /\ attempts' = Stale(attempts)
    /\ FreshViewState
    /\ UNCHANGED << remote, appVars, orderVars, bulkPc, bulkResults,
                    bulkPending, route, discarded >>

(* ----------------------------- navigation ----------------------------- *)

\* the location becomes r.  While <Routes> is not rendered only the location
\* changes.  A detail route replacing a detail route keeps DetailView mounted
\* and re-runs its effect (the dependency [name] changed): the cleanup, then
\* setLoading(true) and a new fetchOne.  Any other change unmounts the old
\* element and mounts the new one.
Navigate(r) ==
    /\ appMounted
    /\ r # route
    /\ route' = r
    /\ IF ~RoutesRendered
       THEN UNCHANGED << orderVars, listVars, active, detailVars, attempts >>
       ELSE IF route.kind = "detail" /\ r.kind = "detail"
       THEN /\ Cardinality(attempts) < MaxAttempts
            /\ attempts' = StartFetchOne(Stale(attempts), r.name)
            /\ detailLoading' = TRUE
            /\ UNCHANGED << data, detailError, orderVars, listVars, active >>
       ELSE MountView(r, all, Stale(attempts))
    /\ UNCHANGED << remote, appMounted, appVars, bulkVars, discarded >>

\* <NavLink to="/" end>
GoList == Navigate([kind |-> "list", name |-> NoName])

\* <NavLink to="/gallery">
GoGallery == Navigate([kind |-> "gallery", name |-> NoName])

\* <Link to={`/pokemon/${p.name}`}>, or the history moving to /pokemon/:name
GoDetail(n) == Navigate([kind |-> "detail", name |-> n])

\* DetailView renders the article with its buttons
DetailShown == View = "detail" /\ ~detailLoading /\ detailError = <<>> /\ data # <<>>

\* onClick={() => prevName && nav(`/pokemon/${prevName}`)}
ClickPrev ==
    LET prevName == PrevName(EffectiveOrder(currentOrder, all), route.name)
    IN  /\ DetailShown
        /\ prevName # <<>>
        /\ Navigate([kind |-> "detail", name |-> prevName[1]])

\* onClick={() => nextName && nav(`/pokemon/${nextName}`)}
ClickNext ==
    LET nextName == NextName(EffectiveOrder(currentOrder, all), route.name)
    IN  /\ DetailShown
        /\ nextName # <<>>
        /\ Navigate([kind |-> "detail", name |-> nextName[1]])

(* ------------------------------ ListView ------------------------------ *)

ListStep(qry, key, d) ==
    /\ View = "list"
    /\ << qry, key, d >> # << query, sortBy, dir >>
    /\ query' = qry
    /\ sortBy' = key
    /\ dir' = d
    /\ PublishList(all, qry, key, d)
    /\ UNCHANGED << remote, appMounted, appVars, bulkVars, route, active,
                    detailVars, attempts, discarded >>

\* onChange={(e) => setQuery(e.target.value)}
SetQuery(qry) == ListStep(qry, sortBy, dir)

\* onChange={(e) => setSortBy(e.target.value as any)}
SetSortBy(key) == ListStep(query, key, dir)

\* the direction changes and the effect that publishes does not run
ToggleDirUnpublished ==
    /\ View = "list"
    /\ dir' = IF dir = "asc" THEN "desc" ELSE "asc"
    /\ UNCHANGED << remote, appMounted, appVars, orderVars, bulkVars, route,
                    query, sortBy, active, detailVars, attempts, discarded >>

\* onClick={() => setDir((d) => (d === "asc" ? "desc" : "asc"))}
ToggleDir == ListStep(query, sortBy, IF dir = "asc" THEN "desc" ELSE "asc")

(* ----------------------------- GalleryView ---------------------------- *)

GalleryStep(act) ==
    /\ View = "gallery"
    /\ active' = act
    /\ PublishGallery(all, act)
    /\ UNCHANGED << remote, appMounted, appVars, bulkVars, route, listVars,
                    detailVars, attempts, discarded >>

\* onChange={() => setActive((a) => (a.includes(t) ? a.filter(...) : [...a, t]))}
ToggleType(t) == GalleryStep(ToggleIn(active, t))

\* {active.length > 0 && <button onClick={() => setActive([])}>}
ClearActive ==
    /\ Len(active) > 0
    /\ GalleryStep(<<>>)

(* ----------------------------- DetailView ----------------------------- *)

\* a fetchOne that writes its result whether or not its effect is still live
FetchOneOkUnguarded(a) ==
    LET p == RemoteLookup(remote, ToLowerCase(a.name))
    IN  /\ a \in attempts
        /\ p # <<>>
        /\ attempts' = attempts \ {a}
        /\ data' = p
        /\ detailLoading' = FALSE
        /\ UNCHANGED << remote, appMounted, appVars, orderVars, bulkVars, route,
                        listVars, active, detailError, discarded >>

\* const p = await fetchOne(name); if (mounted) setData(p);
\* finally { if (mounted) setLoading(false); }
FetchOneOk(a) ==
    LET p == RemoteLookup(remote, ToLowerCase(a.name))
    IN  /\ a \in attempts
        /\ p # <<>>
        /\ attempts' = attempts \ {a}
        /\ IF a.mounted
           THEN /\ data' = p
                /\ detailLoading' = FALSE
                /\ UNCHANGED discarded
           ELSE /\ discarded' = discarded \cup {"fetchOne"}
                /\ UNCHANGED << data, detailLoading >>
        /\ UNCHANGED << remote, appMounted, appVars, orderVars, bulkVars, route,
                        listVars, active, detailError >>

\* catch (e) { if (mounted) setError(e?.message || "Failed to load"); }
\* finally { if (mounted) setLoading(false); }
FetchOneFail(a, msg) ==
        /\ a \in attempts
        /\ attempts' = attempts \ {a}
        /\ IF a.mounted
           THEN /\ detailError' = << IF msg # "" THEN msg ELSE "Failed to load" >>
                /\ detailLoading' = FALSE
                /\ UNCHANGED discarded
           ELSE /\ discarded' = discarded \cup {"fetchOne"}
                /\ UNCHANGED << detailError, detailLoading >>
        /\ UNCHANGED << remote, appMounted, appVars, orderVars, bulkVars, route,
                        listVars, active, data >>

(* -------------------------- the specification ------------------------- *)

Next ==
    \/ \E listing \in Listings(remote) : IndexFetchOk(listing)
    \/ \E msg \in Messages : IndexFetchFail(msg)
    \/ \E i \in 1..MaxItems : DetailFetchOk(i)
    \/ \E i \in 1..MaxItems, msg \in Messages : DetailFetchFail(i, msg)
    \/ AppUnmount
    \/ GoList
    \/ GoGallery
    \/ \E n \in RouteNames : GoDetail(n)
    \/ ClickPrev
    \/ ClickNext
    \/ \E qry \in Edits(query) : SetQuery(qry)
    \/ \E key \in {"name", "id", "base_experience"} : SetSortBy(key)
    \/ ToggleDir
    \/ \E t \in ToggleTypes : ToggleType(t)
    \/ ClearActive
    \/ \E a \in attempts : FetchOneOk(a)
    \/ \E a \in attempts, msg \in Messages : FetchOneFail(a, msg)

Spec == Init /\ [][Next]_vars

(* --------------------- what DetailView computes ----------------------- *)

\* const order = ...; of the mounted DetailView
DetailOrder == EffectiveOrder(currentOrder, all)

\* prevName of the mounted DetailView
DetailPrev == PrevName(DetailOrder, route.name)

\* nextName of the mounted DetailView
DetailNext == NextName(DetailOrder, route.name)

(* ------------------- vocabulary of the properties --------------------- *)

\* the element before (after) name in a sequence without repetitions, or null
Before(seq, name) ==
    IF \E i \in 2..Len(seq) : seq[i] = name
    THEN << seq[(CHOOSE i \in 2..Len(seq) : seq[i] = name) - 1] >>
    ELSE <<>>

After(seq, name) ==
    IF \E i \in 1..(Len(seq) - 1) : seq[i] = name
    THEN << seq[(CHOOSE i \in 1..(Len(seq) - 1) : seq[i] = name) + 1] >>
    ELSE <<>>

\* s is in ascending order of identifier, without repetitions
AscendingById(s) == \A i, j \in 1..Len(s) : i < j => s[i].id < s[j].id

\* q is s without its leading and trailing spaces
IsTrimOf(q, s) ==
    \E i \in 1..(Len(s) + 1), j \in 0..Len(s) :
        /\ q = SubSeq(s, i, j)
        /\ \A k \in 1..Len(s) : (k < i \/ k > j) => s[k] = " "
        /\ q # <<>> => (q[1] # " " /\ q[Len(q)] # " ")

\* the query as the filter reads it: trimmed, then lower-cased
NormalQuery(qry) ==
    LET t == CHOOSE q \in { SubSeq(qry, i, j) : i \in 1..(Len(qry) + 1), j \in 0..Len(qry) } :
                 IsTrimOf(q, qry)
    IN  [ k \in 1..Len(t) |-> IF t[k] = "A" THEN "a" ELSE t[k] ]

\* the number a string of digits writes, -1 for any other string
RECURSIVE Value(_)
Value(q) ==
    IF q = <<>> THEN 0 - 1
    ELSE LET d == IF \E m \in 0..9 : Digit(m) = q[Len(q)]
                  THEN CHOOSE m \in 0..9 : Digit(m) = q[Len(q)]
                  ELSE 0 - 1
             rest == SubSeq(q, 1, Len(q) - 1)
         IN  IF d < 0 THEN 0 - 1
             ELSE IF rest = <<>> THEN d
             ELSE IF Value(rest) <= 0 THEN 0 - 1
             ELSE 10 * Value(rest) + d

\* q occurs in s as a run of consecutive characters
Contains(s, q) ==
    \E i \in 1..(Len(s) + 1) :
        /\ i + Len(q) - 1 <= Len(s)
        /\ \A k \in 1..Len(q) : s[i + k - 1] = q[k]

\* the records a query keeps
Kept(ds, qry) ==
    LET q == NormalQuery(qry)
    IN  { p \in Range(ds) : q = <<>> \/ Contains(p.name, q) \/ Value(q) = p.id }

\* the records that carry every active tag
Tagged(ds, act) ==
    { p \in Range(ds) : \A t \in Range(act) : t \in Range(p.types) }

\* the value the list is sorted by
SortKey(p, key) ==
    CASE key = "name" -> p.name
      [] key = "id" -> p.id
      [] key = "base_experience" ->
            IF p.base_experience = NullXp THEN 0 ELSE p.base_experience

(* ------------------------------- claims ------------------------------- *)

\* C1: a detail route for an existing item always has its lookup under way or
\* settled, whatever the state of the bulk load: DetailView is mounted, and a
\* live fetchOne for the route name is in flight or has already finished.
C1_DetailIndependentOfBulk ==
    (appMounted /\ route.kind = "detail"
        /\ RemoteLookup(remote, ToLowerCase(route.name)) # <<>>)
    => /\ View = "detail"
       /\ \/ [name |-> route.name, mounted |-> TRUE] \in attempts
          \/ ~detailLoading

\* C2: in the mounted DetailView, with the effective order being currentOrder
\* when it is non-empty and else the names of the dataset in identifier
\* order: a route name absent from it has neither prev nor next; otherwise
\* prev is the element just before it (null for the first) and next the
\* element just after it (null for the last).
C2_ResolverNeighbours ==
    View = "detail" =>
        LET eff == IF currentOrder # <<>> THEN currentOrder
                   ELSE [ i \in 1..Len(all) |-> all[i].name ]
        IN  /\ currentOrder = <<>> => AscendingById(all)
            /\ route.name \notin Range(eff) => DetailPrev = <<>> /\ DetailNext = <<>>
            /\ \A i \in 1..Len(eff) :
                 eff[i] = route.name =>
                    /\ DetailPrev = IF i = 1 THEN <<>> ELSE << eff[i - 1] >>
                    /\ DetailNext = IF i = Len(eff) THEN <<>> ELSE << eff[i + 1] >>

C2_Witness ==
    /\ View = "detail"
    /\ currentOrder # <<>>
    /\ DetailPrev # <<>>
    /\ DetailNext # <<>>

\* C3: the dataset is empty or the complete set of fetched records in
\* ascending identifier order; while fetchAll is in flight the status is
\* loading and the dataset empty; a failed load leaves the dataset empty with
\* a non-empty error message; a view is mounted only over the complete dataset.
C3_AllOrNothing ==
    /\ all = <<>> \/ (Range(all) = remote /\ Len(all) = Cardinality(remote))
    /\ AscendingById(all)
    /\ bulkPc \in {"index", "details"} => loading /\ all = <<>> /\ error = <<>>
    /\ (bulkPc = "rejected" /\ appMounted) =>
            all = <<>> /\ error # <<>> /\ error # << "" >> /\ ~loading
    /\ (bulkPc = "resolved" /\ appMounted) =>
            Range(all) = remote /\ error = <<>> /\ ~loading
    /\ View # "none" => bulkPc = "resolved" /\ Range(all) = remote

C3_Witness ==
    /\ bulkPc = "rejected"
    /\ Cardinality(remote) = MaxItems
    /\ all = <<>>
    /\ error = << "Failed to load Pokemon" >>
    /\ View = "none"

\* C4: a response whose effect was cleaned up writes nothing: the step that
\* takes a stale fetchOne out of flight leaves data, loading and error of
\* DetailView unchanged, the step that settles fetchAll after App unmounted
\* leaves all, loading and error unchanged; at most one fetchOne is live, it is
\* the one for the current route name, and data is written only by the step
\* that completes it.
C4_StaleNeverWrites ==
    /\ [](/\ Cardinality({ a \in attempts : a.mounted }) <= 1
          /\ \A a \in attempts :
                a.mounted => View = "detail" /\ a.name = route.name /\ detailLoading)
    /\ [][ /\ \A a \in attempts :
                (~a.mounted /\ attempts' = attempts \ {a})
                    => UNCHANGED << data, detailLoading, detailError >>
           /\ (~bulkMounted /\ bulkPc \in {"index", "details"}
                 /\ bulkPc' \in {"resolved", "rejected"})
                    => UNCHANGED << all, loading, error >>
           /\ (data' # data /\ data' # <<>>)
                    => \E a \in attempts :
                          /\ a.mounted
                          /\ a.name = route.name
                          /\ attempts' = attempts \ {a}
                          /\ data' = RemoteLookup(remote, ToLowerCase(a.name))
         ]_vars

C4_Witness ==
    /\ "fetchOne" \in discarded
    /\ DetailShown
    /\ data[1].name = route.name
    /\ attempts = {}

\* C5: the list keeps exactly the records the query keeps (all of them for
\* an empty query; else those whose name contains the trimmed, lower-cased
\* query or whose identifier written in decimal is the query), each once.
C5_ListFilterExact ==
    View = "list" =>
        /\ Range(currentOrder) = { p.name : p \in Kept(all, query) }
        /\ Len(currentOrder) = Cardinality(Kept(all, query))
        /\ Range(ListFiltered(all, query, sortBy, dir)) = Kept(all, query)

C5_Witness ==
    /\ View = "list"
    /\ Len(all) = MaxItems
    /\ Len(query) > Len(NormalQuery(query))
    /\ Len(currentOrder) = 1
    /\ ~Contains(currentOrder[1], NormalQuery(query))

\* C6: for the dataset, query and sort key of the mounted ListView, the
\* descending output is the ascending output read backwards, so records that
\* tie under the sort key come in the reverse of their ascending order; the
\* published order is the one of the current direction.
C6_DescendingMirrorsAscending ==
    View = "list" =>
        LET asc  == ListFiltered(all, query, sortBy, "asc")
            desc == ListFiltered(all, query, sortBy, "desc")
            n    == Len(asc)
        IN  /\ Len(desc) = n
            /\ \A i \in 1..n : desc[i] = asc[n + 1 - i]
            /\ \A i, j \in 1..n :
                 (i < j /\ SortKey(asc[i], sortBy) = SortKey(asc[j], sortBy)) =>
                    \E k, l \in 1..n : k > l /\ desc[k] = asc[i] /\ desc[l] = asc[j]
            /\ currentOrder =
                 IF dir = "desc" THEN [ i \in 1..n |-> asc[n + 1 - i].name ]
                 ELSE [ i \in 1..n |-> asc[i].name ]

C6_Witness ==
    /\ View = "list"
    /\ dir = "desc"
    /\ sortBy = "base_experience"
    /\ Len(currentOrder) = MaxItems
    /\ \E i \in 1..(Len(all) - 1) :
          SortKey(all[i], sortBy) = SortKey(all[i + 1], sortBy)

\* C7: the gallery shows exactly the records that carry every active tag, in
\* the dataset's identifier order, and ticking one more tag never adds a
\* record to what is shown.
C7_GalleryMonotonic ==
    View = "gallery" =>
        LET shown == GalleryFiltered(all, active)
        IN  /\ Range(shown) = Tagged(all, active)
            /\ AscendingById(shown)
            /\ currentOrder = [ i \in 1..Len(shown) |-> shown[i].name ]
            /\ \A t \in ToggleTypes :
                 ~ArrayIncludes(active, t) =>
                    Range(GalleryFiltered(all, ToggleIn(active, t))) \subseteq Range(shown)

C7_Witness ==
    /\ View = "gallery"
    /\ Len(all) = MaxItems
    /\ Len(active) = 2
    /\ Len(currentOrder) = 1

\* C8: whenever ListView or GalleryView is mounted, currentOrder is the name
\* projection of that view's current output.
C8_OrderIsCurrentProjection ==
    /\ View = "list" =>
          currentOrder = Names(ListFiltered(all, query, sortBy, dir))
    /\ View = "gallery" =>
          currentOrder = Names(GalleryFiltered(all, active))
    /\ View \in {"list", "gallery"} => published

C8_Witness ==
    /\ View = "list"
    /\ query # <<>>
    /\ sortBy = "id"
    /\ dir = "desc"
    /\ Len(currentOrder) = 2

\* C9: the step in which the live fetchOne of the mounted DetailView succeeds
\* leaves the view displaying the fetched item.
C9_SuccessDisplaysItem ==
    [][ \A a \in attempts :
            (a.mounted /\ FetchOneOk(a)) =>
                (DetailShown' /\ data' = RemoteLookup(remote, ToLowerCase(a.name)))
      ]_vars

\* C10 (as stated): once some view has published an order, prev and next of
\* DetailView are the neighbours of the route name in currentOrder.
C10_PublishedOrderAlwaysUsed ==
    (View = "detail" /\ published) =>
        /\ DetailPrev = Before(currentOrder, route.name)
        /\ DetailNext = After(currentOrder, route.name)

\* C10 (amended): prev and next of DetailView are the neighbours of the route
\* name in currentOrder when currentOrder is non-empty, and its neighbours in
\* the dataset's own order when currentOrder is empty, be it that no view has
\* published yet or that the last order published was empty.
C10_DatasetOrderIffOrderEmpty ==
    View = "detail" =>
        /\ ~published => currentOrder = <<>>
        /\ currentOrder # <<>> =>
              /\ DetailPrev = Before(currentOrder, route.name)
              /\ DetailNext = After(currentOrder, route.name)
        /\ currentOrder = <<>> =>
              /\ DetailPrev = Before([ i \in 1..Len(all) |-> all[i].name ], route.name)
              /\ DetailNext = After([ i \in 1..Len(all) |-> all[i].name ], route.name)

C10_Witness ==
    /\ View = "detail"
    /\ published
    /\ currentOrder = <<>>
    /\ DetailPrev # <<>>
    /\ DetailNext # <<>>

====
